---------------------------- MODULE Spec2Model ----------------------------
(***************************************************************************)
(* State-machine model of the ns_server BLE peripheral (server.py) and of  *)
(* the two sensor objects it publishes (sensors/brightness_sensor.py,      *)
(* sensors/volume_sensor.py, sensors/TSL2591X.py).                         *)
(*                                                                         *)
(* Units.  A sensor value (a Python float) is an integer number of         *)
(* twentieths (0.05): 10.0 is 200, 10.05 is 201, 10.2 is 204.  The clock   *)
(* time() is an integer number of tenths of a second: 0.2 s is 2, 5 s is   *)
(* 50.  Text is a sequence of one-character strings, a dbus byte list is   *)
(* a sequence of integers 0..255.                                          *)
(***************************************************************************)
EXTENDS Integers, Sequences, FiniteSets, TLC

(***************************************************************************)
(* Bounds of the model.                                                    *)
(***************************************************************************)
\* last clock value the notification-gate specification advances to
MaxGateTime == 11
\* last clock value the freeze-window specification advances to
MaxFreezeTime == 61
\* number of GLib timeouts that may be armed at once for one characteristic
MaxTimers == 2
\* number of blocks the audio stream delivers in the audio specification
MaxPushes == 160
\* number of leading blocks whose level is free among Samples
FreePushes == 2
\* value at which the count of preset changes stops
MaxArSteps == 7
\* last clock value the light-thread specifications advance to
MaxLightTime == 9
\* last clock value the gate specification with writes advances to
MaxGateFreezeTime == 7
\* last clock value the shutdown specification advances to
MaxShutdownTime == 6
\* last clock value the steady-light specification advances to
MaxConvergeTime == 40

(***************************************************************************)
(* Program constants, in model units.                                      *)
(***************************************************************************)
\* server.py:76   time() + 5           (5 s, in tenths of a second)
PauseSeconds == 50
\* server.py:15   NOTIFY_TIMEOUT = 500 (0.5 s, in tenths of a second)
NOTIFY_TIMEOUT == 5
\* server.py:119  > 0.2                (0.2 s, in tenths of a second)
NotifySpacing == 2
\* server.py:97   self.previous = 100000000   (in twentieths)
PreviousInit == 2000000000
\* server.py:184  > 0.5                (0.5, in twentieths)
VolumeBand == 10
\* server.py:122  0.05 + ...           (0.05, in twentieths)
BrightnessBandAbs == 1
\* server.py:122  0.01 * self.previous (the divisor of the relative part)
BrightnessBandRel == 100
\* float('inf'), the value float() gives a decimal beyond the double range
Inf == 2147483647
\* largest decimal exponent of a finite double
MaxExp == 308
\* TSL2591X.py:40  largest count at 100 ms integration time
MaxCount100 == 36863
\* TSL2591X.py:41  largest count at longer integration times
MaxCountFull == 65535
\* a light level at which preset 2, the initial one, stays
DefaultLight == 200
\* TSL2591X.py:95  sleep(0.1 + 0.1 * ...)  (0.1 s, in tenths of a second)
SettleBase == 1
\* brightness_sensor.py:33  asyncio.sleep(0.2)  (in tenths of a second)
GatherSleep == 2
\* volume_sensor.py:34  CircularBuffer(100)
Capacity == 100
\* volume_sensor.py:54  time_average(..., 0.8), in percent
Percentage == 80

(***************************************************************************)
(* Text and bytes.                                                         *)
(***************************************************************************)
Digits == <<"0", "1", "2", "3", "4", "5", "6", "7", "8", "9">>

IsDigit(c) == \E i \in 1..10 : Digits[i] = c

DigitVal(c) == (CHOOSE i \in 1..10 : Digits[i] = c) - 1

\* the characters the model's texts are written in, with their UTF-8 codes
Alphabet == <<"0", "1", "2", "3", "4", "5", "6", "7", "8", "9",
              ".", "-", "+", "e", "a", "b", "c", "r", "o">>

Codes == <<48, 49, 50, 51, 52, 53, 54, 55, 56, 57,
           46, 45, 43, 101, 97, 98, 99, 114, 111>>

Ord(c) == Codes[CHOOSE i \in 1..Len(Alphabet) : Alphabet[i] = c]

IsCode(b) == \E i \in 1..Len(Codes) : Codes[i] = b

Chr(b) == Alphabet[CHOOSE i \in 1..Len(Codes) : Codes[i] = b]

\* encode(string): the UTF-8 bytes of a text
encode(s) == [i \in 1..Len(s) |-> Ord(s[i])]

\* decode(byte_array) raises UnicodeDecodeError on bytes that are no UTF-8
DecodeOk(bytes) == \A i \in 1..Len(bytes) : IsCode(bytes[i])

decode(bytes) == [i \in 1..Len(bytes) |-> Chr(bytes[i])]

Abs(x) == IF x < 0 THEN -x ELSE x

RECURSIVE Pow10(_)
Pow10(n) == IF n = 0 THEN 1 ELSE 10 * Pow10(n - 1)

\* the decimal digits of a natural number, most significant first
RECURSIVE NatText(_)
NatText(n) == IF n < 10 THEN <<Digits[n + 1]>>
              ELSE Append(NatText(n \div 10), Digits[(n % 10) + 1])

\* value of a digit string (the empty string is 0)
RECURSIVE NatVal(_)
NatVal(s) == IF Len(s) = 0 THEN 0
             ELSE 10 * NatVal(SubSeq(s, 1, Len(s) - 1)) + DigitVal(s[Len(s)])

AllDigits(s) == \A i \in 1..Len(s) : IsDigit(s[i])

\* the text s without its trailing zeros
RECURSIVE StripZeros(_)
StripZeros(s) == IF Len(s) > 0 /\ s[Len(s)] = "0"
                 THEN StripZeros(SubSeq(s, 1, Len(s) - 1)) ELSE s

\* f'{value:.5g}' where the rounded value has more than five integer
\* digits: d.dddde+XX, the mantissa rounded to nearest (ties to even) and
\* stripped of trailing zeros.  h is |value| in hundredths, d the number
\* of digits of its integer part.
Fmt5gExp(h, d) ==
    LET unit == Pow10(d - 3)
        q    == h \div unit
        r    == h % unit
        m0   == IF 2 * r > unit \/ (2 * r = unit /\ q % 2 = 1) THEN q + 1 ELSE q
        m    == IF m0 = 100000 THEN 10000 ELSE m0
        e    == IF m0 = 100000 THEN d ELSE d - 1
        all  == NatText(m)
        rest == StripZeros(SubSeq(all, 2, 5))
    IN  <<all[1]>> \o (IF Len(rest) = 0 THEN <<>> ELSE <<".">> \o rest)
            \o <<"e", "+">> \o (IF e < 10 THEN <<"0">> ELSE <<>>) \o NatText(e)

\* f'{value:.5g}' for |value| < 10^7: five significant digits, trailing
\* zeros and a trailing point removed, exponent form from 99999.5 on.  v is
\* in twentieths, so it has at most two decimals; with four integer digits
\* one decimal is kept, with five none, rounded to nearest (ties to even).
Fmt5g(v) ==
    LET a    == Abs(v)
        ip   == a \div 20
        h    == ip * 100 + (a % 20) * 5
        d    == IF ip = 0 THEN 0 ELSE Len(NatText(ip))
        k    == IF d <= 3 THEN 2 ELSE IF d = 4 THEN 1 ELSE 0
        unit == Pow10(2 - k)
        q    == h \div unit
        r    == h % unit
        m    == IF 2 * r > unit \/ (2 * r = unit /\ q % 2 = 1) THEN q + 1 ELSE q
        int  == m \div Pow10(k)
        fr   == m % Pow10(k)
        frac == IF k = 0 \/ fr = 0 THEN <<>>
                ELSE IF k = 1 THEN <<".", Digits[fr + 1]>>
                ELSE IF fr % 10 = 0 THEN <<".", Digits[(fr \div 10) + 1]>>
                ELSE <<".", Digits[(fr \div 10) + 1], Digits[(fr % 10) + 1]>>
        sign == IF v < 0 /\ m # 0 THEN <<"-">> ELSE <<>>
    IN  IF d > 5 \/ (d = 5 /\ m = 100000)
        THEN sign \o Fmt5gExp(h, d)
        ELSE sign \o NatText(int) \o frac

\* Position of the first character of s equal to c, 0 when there is none.
IndexOf(s, c) == IF \E i \in 1..Len(s) : s[i] = c
                 THEN CHOOSE i \in 1..Len(s) :
                          s[i] = c /\ \A j \in 1..(i - 1) : s[j] # c
                 ELSE 0

\* float(text): [sign] digits [. digits] [e [sign] digits].  ok is FALSE
\* where float() raises ValueError.  v is the value in twentieths, rounded
\* down (the texts of the model are multiples of 0.05 below 10^5 and five
\* digit mantissas above), or Inf where the decimal lies beyond the double
\* range.
ParseFloat(s) ==
    LET neg   == Len(s) > 0 /\ s[1] = "-"
        body  == IF Len(s) > 0 /\ (s[1] = "-" \/ s[1] = "+")
                 THEN SubSeq(s, 2, Len(s)) ELSE s
        ePos  == IndexOf(body, "e")
        mant  == IF ePos = 0 THEN body ELSE SubSeq(body, 1, ePos - 1)
        expo  == IF ePos = 0 THEN <<>> ELSE SubSeq(body, ePos + 1, Len(body))
        eNeg  == Len(expo) > 0 /\ expo[1] = "-"
        eDig  == IF Len(expo) > 0 /\ (expo[1] = "-" \/ expo[1] = "+")
                 THEN SubSeq(expo, 2, Len(expo)) ELSE expo
        pPos  == IndexOf(mant, ".")
        ipart == IF pPos = 0 THEN mant ELSE SubSeq(mant, 1, pPos - 1)
        fpart == IF pPos = 0 THEN <<>> ELSE SubSeq(mant, pPos + 1, Len(mant))
        ok    == /\ AllDigits(ipart) /\ AllDigits(fpart)
                 /\ Len(ipart) + Len(fpart) > 0
                 /\ (ePos # 0 => (Len(eDig) > 0 /\ AllDigits(eDig)))
        digs  == NatVal(ipart \o fpart)
        e     == IF ePos = 0 THEN 0 ELSE NatVal(eDig)
        scale == (IF eNeg THEN -e ELSE e) - Len(fpart)
        big   == digs # 0 /\ ~eNeg /\ Len(ipart) + e > MaxExp
        mag   == IF big THEN Inf
                 ELSE IF scale < 0 THEN (digs * 20) \div Pow10(-scale)
                 ELSE digs * 20 * Pow10(scale)
    IN  IF ~ok THEN [ok |-> FALSE, v |-> 0]
        ELSE [ok |-> TRUE, v |-> IF neg /\ ~big THEN -mag ELSE mag]

(***************************************************************************)
(* Values that cross the GATT boundary or sit in volume_value: a dbus byte *)
(* list, a Python float, or nothing.                                       *)
(***************************************************************************)
Bytes(b) == [t |-> "bytes", b |-> b, v |-> 0]

Float(v) == [t |-> "float", b |-> <<>>, v |-> v]

None == [t |-> "none", b |-> <<>>, v |-> 0]

\* the observable result of a handler: what it returned or pushed with
\* PropertiesChanged (val), and whether an exception left it (raised)
Result(op, val, raised) == [op |-> op, val |-> val, raised |-> raised]

Idle == Result("idle", None, FALSE)

(***************************************************************************)
(* TSL2591X: the presets and the arithmetic of the light sensor driver.    *)
(***************************************************************************)
\* [1, 25, 428, 9876][self.gain >> 4]
GainMultiplier == <<1, 25, 428, 9876>>

\* the presets with the upper threshold of preset 3 lowered, so that the
\* ranges of presets 2 and 3 no longer overlap
statesNarrow == <<
    [gain |-> 0, integration |-> 0, lo |-> 1843, hi |-> 35020],
    [gain |-> 0, integration |-> 5, lo |-> 3277, hi |-> 62258],
    [gain |-> 1, integration |-> 1, lo |-> 3277, hi |-> 62258],
    [gain |-> 2, integration |-> 0, lo |-> 1843, hi |-> 20000],
    [gain |-> 2, integration |-> 5, lo |-> 3277, hi |-> 62258],
    [gain |-> 3, integration |-> 1, lo |-> 3277, hi |-> 62258],
    [gain |-> 3, integration |-> 5, lo |-> 3277, hi |-> 62258] >>

\* TSL2591X.states; gain is GAIN_x >> 4 (LOW 0, MED 1, HIGH 2, MAX 3) and
\* integration is INTEGRATIONTIME_x (100MS 0, 200MS 1, 600MS 5).  Preset i
\* of the source is element i + 1.
states == <<
    [gain |-> 0, integration |-> 0, lo |-> 1843, hi |-> 35020],
    [gain |-> 0, integration |-> 5, lo |-> 3277, hi |-> 62258],
    [gain |-> 1, integration |-> 1, lo |-> 3277, hi |-> 62258],
    [gain |-> 2, integration |-> 0, lo |-> 1843, hi |-> 35020],
    [gain |-> 2, integration |-> 5, lo |-> 3277, hi |-> 62258],
    [gain |-> 3, integration |-> 1, lo |-> 3277, hi |-> 62258],
    [gain |-> 3, integration |-> 5, lo |-> 3277, hi |-> 62258] >>

\* irradiance(): 428 / multiplier * 1 / (integration_time + 1) * channel_0
\* / 100.0, in twentieths, rounded down
irradiance(state, channel_0) ==
    (428 * channel_0)
        \div (5 * GainMultiplier[states[state + 1].gain + 1]
                * (states[state + 1].integration + 1))

\* a pass of autorange that moves two presets down where it can
autorangeEager(state, channel_0) ==
    IF channel_0 > states[state + 1].hi /\ state > 1 THEN state - 2
    ELSE IF channel_0 > states[state + 1].hi /\ state > 0 THEN state - 1
    ELSE IF channel_0 < states[state + 1].lo /\ state < Len(states) - 1
    THEN state + 1
    ELSE state

\* autorange(once=True): the preset after one pass on a reading channel_0
autorange(state, channel_0) ==
    IF channel_0 > states[state + 1].hi /\ state > 0 THEN state - 1
    ELSE IF channel_0 < states[state + 1].lo /\ state < Len(states) - 1
    THEN state + 1
    ELSE state

\* channel 0 readings of raw_luminosity: dim, in range, saturated
ChannelReadings == {1000, 6000, 65535}

\* the largest count a channel gives: the table of the class docstring,
\* column Max
MaxCount(state) ==
    IF states[state + 1].integration = 0 THEN MaxCount100 ELSE MaxCountFull

\* the counts per unit of light at a preset
CountFactor(state) ==
    GainMultiplier[states[state + 1].gain + 1]
        * (states[state + 1].integration + 1)

\* channel 0 under a steady light: level counts at gain 1 and 100 ms, in
\* proportion to the gain and the integration time of the preset, up to
\* the largest count
SteadyReading(state, level) ==
    IF level > MaxCount(state) \div CountFactor(state) THEN MaxCount(state)
    ELSE level * CountFactor(state)

\* steady light levels: dark, saturating, and the levels on either side of
\* each threshold of each preset
LightLevels ==
    {0, 70000} \cup
    UNION { { states[i + 1].lo \div CountFactor(i),
              states[i + 1].lo \div CountFactor(i) + 1,
              states[i + 1].hi \div CountFactor(i),
              states[i + 1].hi \div CountFactor(i) + 1 } : i \in 0..6 }

\* what raises in one pass of autorange, if anything
AutorangeFaults == {"none", "read", "disable", "enable"}

(***************************************************************************)
(* Inputs of the model.                                                    *)
(***************************************************************************)
\* values the light loop publishes: 10.0, 10.05, 10.2 (in twentieths)
BrightnessValues == {200, 201, 204}

\* levels the audio callback publishes: 10.0, 10.5, 11.0 (in twentieths)
VolumeValues == {200, 210, 220}

\* levels of the first blocks of audio: 0 dB (silence) and 120 dB
Samples == {0, 2400}

\* where one call of the audio callback raises, if anywhere
Faults == {"none", "toDecibels", "push", "time_average"}

\* payloads written to the pause characteristic: "1", "0", "12.5", "abc",
\* "1e999" and a byte list that is no UTF-8
Payloads == { encode(<<"1">>), encode(<<"0">>),
              encode(<<"1", "2", ".", "5">>), encode(<<"a", "b", "c">>),
              encode(<<"1", "e", "9", "9", "9">>), <<255>> }

(***************************************************************************)
(* The conversions at the GATT boundary, worked out once for the values    *)
(* and payloads above.                                                     *)
(***************************************************************************)
\* encode(f'{value:.5g}')
ValueText(v) == encode(Fmt5g(v))

\* float(decode(byte_array)); ok is FALSE where decode() or float() raises
FloatOfBytes(bytes) == IF DecodeOk(bytes) THEN ParseFloat(decode(bytes))
                       ELSE [ok |-> FALSE, v |-> 0]

\* every value a sensor object can hold in the model
SensorDomain ==
    {0} \cup BrightnessValues \cup VolumeValues
        \cup {irradiance(i, channel_0) :
                  i \in 0..(Len(states) - 1), channel_0 \in ChannelReadings}

ValueTextOf == [v \in SensorDomain |-> ValueText(v)]

FloatOf == [bytes \in Payloads \cup {ValueText(v) : v \in SensorDomain}
               |-> FloatOfBytes(bytes)]

VARIABLES
    now,                          \* time()
    brightness_value,             \* brightness_sensor.value
    volume_sensor_value,          \* volume_sensor.value
    volume_update_paused_until,   \* NsService.volume_update_paused_until
    brightness_notifying,         \* BrightnessCharacteristic.notifying
    brightness_previous,          \* BrightnessCharacteristic.previous
    brightness_last_notify,       \* BrightnessCharacteristic.last_notify
    brightness_timers,            \* due times of the timeouts calling its notify
    volume_notifying,             \* VolumeCharacteristic.notifying
    volume_value,                 \* VolumeCharacteristic.volume_value
    volume_previous,              \* VolumeCharacteristic.previous
    volume_last_notify,           \* VolumeCharacteristic.last_notify
    volume_timers,                \* due times of the timeouts calling its notify
    out,                          \* result of the handler that ran last
    keep_running,                 \* BrightnessSensor.keep_running
    loop_pc,                      \* where the light thread stands
    loop_exc,                     \* the loop's except clause ran this iteration
    sampled,                      \* history: irradiance() has returned in the loop
    sensor_enabled,               \* the TSL2591 device is powered on
    tsl_state,                    \* TSL2591X.state
    last_channel_0,               \* channel_0 of the last raw_luminosity read
    settle_until,                 \* when the sleep of the last setstate ends
    gather_until,                 \* when the sleep(0.2) of the last gather ends
    ar_steps,                     \* history: preset changes made by autorange, up to MaxArSteps
    light,                        \* the light on the sensor: counts at gain 1, 100 ms
    stream,                       \* VolumeSensor.stream: active, aborted, closed
    buffer,                       \* VolumeSensor.buffer: the array's elements
    buf_length,                   \* CircularBuffer._length
    buf_index,                    \* CircularBuffer._index
    pushes,                       \* history: number of push calls that returned
    history,                      \* history: the samples pushed, oldest first
    main_pc                       \* where the main thread of server.py stands

sensorVars == <<brightness_value, volume_sensor_value>>

brightnessVars == <<brightness_notifying, brightness_previous,
                    brightness_last_notify, brightness_timers>>

volumeVars == <<volume_notifying, volume_previous, volume_last_notify,
                volume_timers>>

lightVars == <<keep_running, loop_pc, loop_exc, sampled, sensor_enabled,
              tsl_state, last_channel_0, settle_until, gather_until,
              ar_steps>>

mainVars == <<stream, main_pc>>

audioVars == <<buffer, buf_length, buf_index, pushes, history>>

\* what the GATT handlers and the clock read and write
serverVars == <<now, volume_update_paused_until, brightnessVars, volumeVars,
                volume_value, out>>

vars == <<now, brightness_value, volume_sensor_value,
          volume_update_paused_until, brightness_notifying,
          brightness_previous, brightness_last_notify, brightness_timers,
          volume_notifying, volume_value, volume_previous,
          volume_last_notify, volume_timers, out, keep_running, loop_pc,
          loop_exc, sampled, sensor_enabled, tsl_state, stream, main_pc,
          buffer, buf_length, buf_index, pushes, history,
          last_channel_0, settle_until, gather_until, ar_steps, light>>

(***************************************************************************)
(* NsService: the freeze window.                                           *)
(***************************************************************************)
\* time() <= self.volume_update_paused_until: the window with its end let in
is_paused_at_inclusive(t, paused_until) == t <= paused_until

\* time() < self.volume_update_paused_until, asked at time t  (the initial
\* False compares as 0)
is_paused_at(t, paused_until) == t < paused_until

is_volume_update_paused == is_paused_at(now, volume_update_paused_until)

\* a pause that leaves the expiry of an active window where it is
pause_volume_update_once ==
    IF is_volume_update_paused THEN volume_update_paused_until
    ELSE now + PauseSeconds

\* self.volume_update_paused_until = time() + 5
pause_volume_update == now + PauseSeconds

\* self.volume_update_paused_until = 0
resume_volume_update == 0

(***************************************************************************)
(* The periodic tick: Characteristic.add_timeout(NOTIFY_TIMEOUT, notify)   *)
(* arms a timeout that calls notify no earlier than NOTIFY_TIMEOUT from    *)
(* now, and again NOTIFY_TIMEOUT after each call for as long as the call   *)
(* returns True.  The armed timeouts of a characteristic are the sequence  *)
(* of their due times, earliest first.                                     *)
(***************************************************************************)
\* s without its i-th element
Remove(s, i) == SubSeq(s, 1, i - 1) \o SubSeq(s, i + 1, Len(s))

\* the ascending sequence s with d put in its place
Insert(s, d) ==
    LET k == Cardinality({i \in 1..Len(s) : s[i] <= d})
    IN  SubSeq(s, 1, k) \o <<d>> \o SubSeq(s, k + 1, Len(s))

add_timeout(timers) == Insert(timers, now + NOTIFY_TIMEOUT)

\* the i-th timeout has called its callback, which returned keep (a
\* callback that raises is dropped like one that returns False)
timeout_return(timers, i, keep) ==
    IF keep THEN Insert(Remove(timers, i), now + NOTIFY_TIMEOUT)
    ELSE Remove(timers, i)

\* the timeouts that are due
Due(timers) == {i \in 1..Len(timers) : timers[i] <= now}

\* time() - self.last_notify >= 0.2: the spacing test with the bound let in
SpacingElapsedInclusive(last_notify) == now - last_notify >= NotifySpacing

\* time() - self.last_notify > 0.2, the spacing test of both notify callbacks
SpacingElapsed(last_notify) == now - last_notify > NotifySpacing

\* last_notify after a tick that sets it whether or not it pushed
LastNotifyEveryTick(last_notify, pushed) == now

\* last_notify after a tick: self.last_notify = time() stands inside the
\* if that pushes
LastNotify(last_notify, pushed) == IF pushed THEN now ELSE last_notify

(***************************************************************************)
(* BrightnessCharacteristic                                                *)
(***************************************************************************)
BoolInt(p) == IF p THEN 1 ELSE 0

\* 0.05 + (0.01 * self.previous), in twentieths, rounded down: for whole
\* numbers d and p, d > 1 + p/100 holds exactly when d > 1 + (p \div 100)
BrightnessBand(previous) == BrightnessBandAbs + (previous \div BrightnessBandRel)

\* abs(self.previous - num > 0.05 + (0.01 * self.previous)): abs() of the
\* comparison's truth value
BrightnessChanged(previous, num) ==
    Abs(BoolInt(previous - num > BrightnessBand(previous))) # 0

\* a get() that returns the text of the sensor's initial value
BrightnessGetInitial == Bytes(ValueTextOf[0])

\* BrightnessCharacteristic.get(): the sensor value as text, encoded.  The
\* except clause, which returns encode('error'), runs when get() or the
\* formatting raises: brightness_sensor.get() returns self.value, which is
\* the initial 0 or a float, and neither raises.
BrightnessGet == Bytes(ValueTextOf[brightness_value])

\* the notify callback of the timeout
BrightnessNotify(i) ==
    /\ i \in Due(brightness_timers)
    /\ IF brightness_notifying /\ SpacingElapsed(brightness_last_notify)
       THEN LET value == BrightnessGet
                num   == FloatOf[value.b]
            IN  IF ~num.ok
                THEN /\ out' = Result("BrightnessNotify", None, TRUE)
                     /\ brightness_timers' = timeout_return(brightness_timers, i, FALSE)
                     /\ UNCHANGED <<brightness_previous, brightness_last_notify>>
                ELSE IF BrightnessChanged(brightness_previous, num.v)
                THEN /\ out' = Result("BrightnessNotify", value, FALSE)
                     /\ brightness_previous' = num.v
                     /\ brightness_last_notify' =
                            LastNotify(brightness_last_notify, TRUE)
                     /\ brightness_timers' =
                            timeout_return(brightness_timers, i, brightness_notifying)
                ELSE /\ out' = Result("BrightnessNotify", None, FALSE)
                     /\ brightness_timers' =
                            timeout_return(brightness_timers, i, brightness_notifying)
                     /\ brightness_last_notify' =
                            LastNotify(brightness_last_notify, FALSE)
                     /\ UNCHANGED brightness_previous
       ELSE /\ out' = Result("BrightnessNotify", None, FALSE)
            /\ brightness_timers' =
                   timeout_return(brightness_timers, i, brightness_notifying)
            /\ UNCHANGED <<brightness_previous, brightness_last_notify>>
    /\ UNCHANGED <<lightVars, mainVars, audioVars, light>>
    /\ UNCHANGED <<now, sensorVars, volume_update_paused_until,
                   brightness_notifying, volumeVars, volume_value>>

BrightnessStartNotify ==
    /\ IF brightness_notifying
       THEN /\ out' = Result("BrightnessStartNotify", None, FALSE)
            /\ UNCHANGED <<brightness_notifying, brightness_timers>>
       ELSE /\ Len(brightness_timers) < MaxTimers
            /\ brightness_notifying' = TRUE
            /\ out' = Result("BrightnessStartNotify", BrightnessGet, FALSE)
            /\ brightness_timers' = add_timeout(brightness_timers)
    /\ UNCHANGED <<lightVars, mainVars, audioVars, light>>
    /\ UNCHANGED <<now, sensorVars, volume_update_paused_until,
                   brightness_previous, brightness_last_notify,
                   volumeVars, volume_value>>

BrightnessStopNotify ==
    /\ brightness_notifying' = FALSE
    /\ out' = Idle
    /\ UNCHANGED <<lightVars, mainVars, audioVars, light>>
    /\ UNCHANGED <<now, sensorVars, volume_update_paused_until,
                   brightness_previous, brightness_last_notify,
                   brightness_timers, volumeVars, volume_value>>

BrightnessReadValue ==
    /\ out' = Result("BrightnessReadValue", BrightnessGet, FALSE)
    /\ UNCHANGED <<lightVars, mainVars, audioVars, light>>
    /\ UNCHANGED <<now, sensorVars, volume_update_paused_until,
                   brightnessVars, volumeVars, volume_value>>

(***************************************************************************)
(* VolumeCharacteristic                                                    *)
(***************************************************************************)
\* abs(self.previous - num > 0.5): abs() of the comparison's truth value
VolumeChanged(previous, num) == Abs(BoolInt(previous - num > VolumeBand)) # 0

\* VolumeCharacteristic.get_raw(): the sensor value as text, encoded
VolumeGetRaw == Bytes(ValueTextOf[volume_sensor_value])

\* VolumeCharacteristic.get(): volume_value after the call, which is also
\* what the call returns; it is refreshed unless the freeze window is active
VolumeGet == IF ~is_volume_update_paused THEN VolumeGetRaw ELSE volume_value

\* the notify callback of the timeout; decode() of a value that is no byte
\* list raises TypeError, float() of a text that is no number ValueError
VolumeNotify(i) ==
    /\ i \in Due(volume_timers)
    /\ IF volume_notifying /\ SpacingElapsed(volume_last_notify)
       THEN LET value == VolumeGet
                num   == IF value.t = "bytes" THEN FloatOf[value.b]
                         ELSE [ok |-> FALSE, v |-> 0]
            IN  /\ volume_value' = value
                /\ IF ~num.ok
                   THEN /\ out' = Result("VolumeNotify", None, TRUE)
                        /\ volume_timers' = timeout_return(volume_timers, i, FALSE)
                        /\ UNCHANGED <<volume_previous, volume_last_notify>>
                   ELSE IF VolumeChanged(volume_previous, num.v)
                   THEN /\ out' = Result("VolumeNotify", value, FALSE)
                        /\ volume_previous' = num.v
                        /\ volume_last_notify' =
                               LastNotify(volume_last_notify, TRUE)
                        /\ volume_timers' =
                               timeout_return(volume_timers, i, volume_notifying)
                   ELSE /\ out' = Result("VolumeNotify", None, FALSE)
                        /\ volume_timers' =
                               timeout_return(volume_timers, i, volume_notifying)
                        /\ volume_last_notify' =
                               LastNotify(volume_last_notify, FALSE)
                        /\ UNCHANGED volume_previous
       ELSE /\ out' = Result("VolumeNotify", None, FALSE)
            /\ volume_timers' = timeout_return(volume_timers, i, volume_notifying)
            /\ UNCHANGED <<volume_value, volume_previous, volume_last_notify>>
    /\ UNCHANGED <<lightVars, mainVars, audioVars, light>>
    /\ UNCHANGED <<now, sensorVars, volume_update_paused_until,
                   volume_notifying, brightnessVars>>

VolumeStartNotify ==
    /\ IF volume_notifying
       THEN /\ out' = Result("VolumeStartNotify", None, FALSE)
            /\ UNCHANGED <<volume_notifying, volume_timers, volume_value>>
       ELSE /\ Len(volume_timers) < MaxTimers
            /\ volume_notifying' = TRUE
            /\ volume_value' = VolumeGet
            /\ out' = Result("VolumeStartNotify", VolumeGet, FALSE)
            /\ volume_timers' = add_timeout(volume_timers)
    /\ UNCHANGED <<lightVars, mainVars, audioVars, light>>
    /\ UNCHANGED <<now, sensorVars, volume_update_paused_until,
                   volume_previous, volume_last_notify, brightnessVars>>

VolumeStopNotify ==
    /\ volume_notifying' = FALSE
    /\ out' = Idle
    /\ UNCHANGED <<lightVars, mainVars, audioVars, light>>
    /\ UNCHANGED <<now, sensorVars, volume_update_paused_until, volume_value,
                   volume_previous, volume_last_notify, volume_timers,
                   brightnessVars>>

VolumeReadValue ==
    /\ volume_value' = VolumeGet
    /\ out' = Result("VolumeReadValue", VolumeGet, FALSE)
    /\ UNCHANGED <<lightVars, mainVars, audioVars, light>>
    /\ UNCHANGED <<now, sensorVars, volume_update_paused_until, volumeVars,
                   brightnessVars>>

(***************************************************************************)
(* PauseVolumeUpdateCharacteristic                                         *)
(***************************************************************************)
\* float(decode(value)) that takes what is no number for 0
WriteParseLenient(payload) ==
    IF FloatOf[payload].ok THEN FloatOf[payload] ELSE [ok |-> TRUE, v |-> 0]

\* float(decode(value)) of the written byte list
WriteParse(payload) == FloatOf[payload]

\* the pinned value after an accepted write that overwrites it every time
PinnedAlways(was_paused, value) == Float(value)

\* if not was_paused: self.service.volume.volume_value = value
Pinned(was_paused, value) == IF ~was_paused THEN Float(value) ELSE volume_value

\* WriteValue: whatever raises inside the try block is caught and printed
PauseWriteValue(payload) ==
    /\ LET value == WriteParse(payload)
       IN  IF value.ok
           THEN LET was_paused == is_volume_update_paused
                IN  /\ volume_update_paused_until' = pause_volume_update
                    /\ volume_value' = Pinned(was_paused, value.v)
           ELSE UNCHANGED <<volume_update_paused_until, volume_value>>
    /\ out' = Result("PauseWriteValue", Bytes(payload), FALSE)
    /\ UNCHANGED <<lightVars, mainVars, audioVars, light>>
    /\ UNCHANGED <<now, sensorVars, volumeVars, brightnessVars>>

PauseReadValue ==
    /\ out' = Result("PauseReadValue",
                     Bytes(encode(IF is_volume_update_paused
                                  THEN <<"1">> ELSE <<"0">>)), FALSE)
    /\ UNCHANGED <<lightVars, mainVars, audioVars, light>>
    /\ UNCHANGED <<now, sensorVars, volume_update_paused_until, volume_value,
                   volumeVars, brightnessVars>>

(***************************************************************************)
(* The sensor threads, seen from the server: each publishes a new value.   *)
(***************************************************************************)
\* BrightnessSensor.loop: self.value = sensor.irradiance()
BrightnessSensorPublish(v) ==
    /\ brightness_value' = v
    /\ out' = Idle
    /\ UNCHANGED <<lightVars, mainVars, audioVars, light>>
    /\ UNCHANGED <<now, volume_sensor_value, volume_update_paused_until,
                   volume_value, volumeVars, brightnessVars>>

\* VolumeSensor.callback: self.value = self.time_average(...)
VolumeSensorPublish(v) ==
    /\ stream = "active"
    /\ volume_sensor_value' = v
    /\ out' = Idle
    /\ UNCHANGED <<lightVars, mainVars, audioVars, light>>
    /\ UNCHANGED <<now, brightness_value, volume_update_paused_until,
                   volume_value, volumeVars, brightnessVars>>

\* the clock moves on by a tenth of a second, up to limit
Advance(limit) ==
    /\ now < limit
    /\ now' = now + 1
    /\ out' = Idle
    /\ UNCHANGED <<lightVars, mainVars, audioVars, light>>
    /\ UNCHANGED <<sensorVars, volume_update_paused_until, volume_value,
                   volumeVars, brightnessVars>>

(***************************************************************************)
(* BrightnessSensor: the thread started by the constructor.  A step of the *)
(* thread is the code between two awaits; loop_pc names the await or the   *)
(* statement the thread stands at.                                         *)
(***************************************************************************)
\* the variables of the thread that a step leaves alone unless it says so
loopLocals == <<last_channel_0, settle_until, gather_until, ar_steps>>

\* start_loop: self.keep_running = True; asyncio.run(self.loop())
LoopStart ==
    /\ loop_pc = "start_loop"
    /\ keep_running' = TRUE
    /\ loop_pc' = "begin"
    /\ UNCHANGED <<loop_exc, sampled, sensor_enabled, tsl_state, loopLocals>>
    /\ UNCHANGED <<sensorVars, serverVars, mainVars, audioVars, light>>

\* setstate: a settling delay that does not depend on the preset
SettleDelayShort(val) == SettleBase

\* setstate: sleep(0.1 + 0.1 * (self.integration_time + 1)), in tenths of
\* a second, for preset val
SettleDelay(val) == SettleBase + SettleBase * (states[val + 1].integration + 1)

\* loop, up to the first await: the driver is built and begin() calls
\* setstate(self.state), which sets gain and integration time, disables
\* and enables the sensor and goes to sleep.  When the bus fails here the
\* exception leaves the with block, which disables the sensor, and the
\* thread.
LoopBegin(ok) ==
    /\ loop_pc = "begin"
    /\ IF ok THEN /\ sensor_enabled' = TRUE
                  /\ settle_until' = now + SettleDelay(tsl_state)
                  /\ loop_pc' = "begin_settle"
             ELSE /\ sensor_enabled' = FALSE
                  /\ loop_pc' = "failed"
                  /\ UNCHANGED settle_until
    /\ UNCHANGED <<keep_running, loop_exc, sampled, tsl_state, last_channel_0,
                   gather_until, ar_steps>>
    /\ UNCHANGED <<sensorVars, serverVars, mainVars, audioVars, light>>

\* setstate returns when its sleep is over: to loop from begin(), to the
\* end of autorange otherwise
SetstateReturn ==
    /\ loop_pc \in {"begin_settle", "autorange_settle"}
    /\ now >= settle_until
    /\ loop_pc' = IF loop_pc = "begin_settle" THEN "while" ELSE "gather"
    /\ UNCHANGED <<keep_running, loop_exc, sampled, sensor_enabled, tsl_state,
                   loopLocals>>
    /\ UNCHANGED <<sensorVars, serverVars, mainVars, audioVars, light>>

\* while self.keep_running: ... ; leaving the with block disables the sensor
LoopTest ==
    /\ loop_pc = "while"
    /\ IF keep_running THEN /\ loop_pc' = "irradiance"
                            /\ loop_exc' = FALSE
                            /\ UNCHANGED sensor_enabled
                       ELSE /\ loop_pc' = "exited"
                            /\ sensor_enabled' = FALSE
                            /\ UNCHANGED loop_exc
    /\ UNCHANGED <<keep_running, sampled, tsl_state, loopLocals>>
    /\ UNCHANGED <<sensorVars, serverVars, mainVars, audioVars, light>>

\* the published value after a failed read, set back to the initial 0
ValueAfterReadReset(ok, reading) ==
    IF ok THEN irradiance(tsl_state, reading) ELSE 0

\* self.value = sensor.irradiance(): assigned only when the read returns
ValueAfterRead(ok, reading) ==
    IF ok THEN irradiance(tsl_state, reading) ELSE brightness_value

\* self.value = sensor.irradiance() on the reading raw_luminosity gives,
\* then gather() starts autorange and sleep(0.2); or the except clause when
\* the read raises
LoopIrradiance(ok, reading) ==
    /\ loop_pc = "irradiance"
    /\ brightness_value' = ValueAfterRead(ok, reading)
    /\ IF ok THEN /\ loop_pc' = "autorange"
                  /\ last_channel_0' = reading
                  /\ gather_until' = now + GatherSleep
                  /\ UNCHANGED loop_exc
             ELSE /\ loop_pc' = "while"
                  /\ loop_exc' = TRUE
                  /\ UNCHANGED <<last_channel_0, gather_until>>
    /\ sampled' = (sampled \/ ok)
    /\ UNCHANGED <<keep_running, sensor_enabled, tsl_state, settle_until,
                   ar_steps>>
    /\ UNCHANGED <<volume_sensor_value, serverVars, mainVars, audioVars, light>>

\* autorange(True) up to its first await or its end, on the reading
\* raw_luminosity gives.  fault says what raises: nothing, the read, or,
\* when the preset changes, disable() or enable() inside setstate, which
\* has set self.state by then.  An exception leaves gather() at once and
\* runs the except clause of the loop.
LoopAutorange(fault, reading) ==
    /\ loop_pc = "autorange"
    /\ LET val == autorange(tsl_state, reading)
       IN  IF fault = "read"
           THEN /\ loop_exc' = TRUE
                /\ loop_pc' = "while"
                /\ UNCHANGED <<tsl_state, sensor_enabled, last_channel_0,
                               settle_until>>
           ELSE IF val = tsl_state
           THEN /\ fault = "none"
                /\ last_channel_0' = reading
                /\ loop_pc' = "gather"
                /\ UNCHANGED <<tsl_state, sensor_enabled, loop_exc,
                               settle_until>>
           ELSE /\ last_channel_0' = reading
                /\ tsl_state' = val
                /\ IF fault = "none"
                   THEN /\ sensor_enabled' = TRUE
                        /\ settle_until' = now + SettleDelay(val)
                        /\ loop_pc' = "autorange_settle"
                        /\ UNCHANGED loop_exc
                   ELSE /\ sensor_enabled' =
                               (fault = "disable" /\ sensor_enabled)
                        /\ loop_exc' = TRUE
                        /\ loop_pc' = "while"
                        /\ UNCHANGED settle_until
    /\ ar_steps' = IF tsl_state' # tsl_state /\ ar_steps < MaxArSteps
                   THEN ar_steps + 1 ELSE ar_steps
    /\ UNCHANGED <<keep_running, sampled, gather_until>>
    /\ UNCHANGED <<sensorVars, serverVars, mainVars, audioVars, light>>

\* gather() returns when autorange has returned and sleep(0.2) is over
LoopGather ==
    /\ loop_pc = "gather"
    /\ now >= gather_until
    /\ loop_pc' = "while"
    /\ UNCHANGED <<keep_running, loop_exc, sampled, sensor_enabled, tsl_state,
                   loopLocals>>
    /\ UNCHANGED <<sensorVars, serverVars, mainVars, audioVars, light>>

\* stop_loop, called from any other thread
stop_loop ==
    /\ keep_running' = FALSE
    /\ UNCHANGED <<loop_pc, loop_exc, sampled, sensor_enabled, tsl_state,
                   loopLocals>>
    /\ UNCHANGED <<sensorVars, serverVars, mainVars, audioVars, light>>

(***************************************************************************)
(* CircularBuffer and VolumeSensor: the audio callback.                    *)
(***************************************************************************)
\* np.zeros(max_length): array index i of the source is element i + 1
EmptyBuffer == [i \in 1..Capacity |-> 0]

\* push: the count after it, capped at a lower capacity
PushLengthShort(length) == IF length < Capacity - 1 THEN length + 1 ELSE length

\* push: if self._length < self._max_length: self._length += 1
PushLength(length) == IF length < Capacity THEN length + 1 ELSE length

\* push: self._index += 1; self._index %= len(self)
PushIndex(index) == (index + 1) % Capacity

\* populated_slice: self[:self._length] until the buffer is full, then self
populated_slice(buf, length) ==
    IF length < Capacity THEN SubSeq(buf, 1, length) ELSE buf

\* time_average: the index with the product rounded to nearest
TimeAverageIndexRound(n) ==
    LET index == (2 * Percentage * n + 100) \div 200
    IN  IF index < 0 THEN 0 ELSE IF index > n - 1 THEN n - 1 ELSE index

\* time_average: index = int(percentage * len(samples)), then max(0, .)
\* and min(len(samples) - 1, .)
TimeAverageIndex(n) ==
    LET index == (Percentage * n) \div 100
    IN  IF index < 0 THEN 0 ELSE IF index > n - 1 THEN n - 1 ELSE index

\* np.partition(samples, index)[index]: the element that stands at 0-based
\* position index when the samples are in ascending order
Partitioned(samples, index) ==
    LET n == Len(samples)
        i == CHOOSE i \in 1..n :
                 /\ Cardinality({j \in 1..n : samples[j] < samples[i]}) <= index
                 /\ index < Cardinality({j \in 1..n : samples[j] <= samples[i]})
    IN  samples[i]

time_average(samples) == Partitioned(samples, TimeAverageIndex(Len(samples)))

\* the level toDecibels computes for the k-th block of audio, in twentieths
\* of a decibel: free among Samples for the first FreePushes blocks, then a
\* fixed scattered sequence
SampleAt(k) == ((k * 37) % 101) * 20

SamplesAt(k) == IF k < FreePushes THEN Samples ELSE {SampleAt(k)}

\* VolumeSensor.callback, called by the audio stream for each block.  The
\* method has no try: where toDecibels, push or time_average raises (fault),
\* the statements after it do not run and the exception leaves the
\* callback, upon which the stream stops calling it.
callback(sample, fault) ==
    /\ stream = "active"
    /\ pushes < MaxPushes
    /\ IF fault = "toDecibels"
       THEN UNCHANGED <<buffer, buf_length, buf_index, pushes, history,
                        volume_sensor_value>>
       ELSE IF fault = "push"
       THEN /\ buf_length' = PushLength(buf_length)
            /\ UNCHANGED <<buffer, buf_index, pushes, history,
                           volume_sensor_value>>
       ELSE /\ buf_length' = PushLength(buf_length)
            /\ buffer' = [buffer EXCEPT ![buf_index + 1] = sample]
            /\ buf_index' = PushIndex(buf_index)
            /\ pushes' = pushes + 1
            /\ history' = Append(history, sample)
            /\ IF fault = "time_average"
               THEN UNCHANGED volume_sensor_value
               ELSE volume_sensor_value' =
                        time_average(populated_slice(buffer', buf_length'))
    /\ stream' = IF fault = "none" THEN "active" ELSE "aborted"
    /\ UNCHANGED <<brightness_value, serverVars, lightVars, main_pc, light>>

(***************************************************************************)
(* server.py, main thread: app.run() and the two except clauses.           *)
(***************************************************************************)
\* the methods class BrightnessSensor defines
BrightnessSensorMethods == {"__init__", "start_loop", "stop_loop", "loop", "get"}

\* app.run() ends with KeyboardInterrupt or with another exception
MainInterrupt(keyboard) ==
    /\ main_pc = "run"
    /\ main_pc' = IF keyboard THEN "except KeyboardInterrupt" ELSE "except"
    /\ UNCHANGED stream
    /\ UNCHANGED <<sensorVars, serverVars, lightVars, audioVars, light>>

\* stop(): app.quit(); brightness_sensor.stop(); volume_sensor.stop().
\* Calling a method the class does not define raises AttributeError out of
\* stop() and out of the except clause: the statements after it do not run.
stop ==
    /\ main_pc \in {"except KeyboardInterrupt", "except"}
    /\ IF "stop" \in BrightnessSensorMethods
       THEN /\ keep_running' = FALSE
            /\ stream' = "closed"
            /\ main_pc' = "stopped"
       ELSE /\ main_pc' = "raised AttributeError"
            /\ UNCHANGED <<keep_running, stream>>
    /\ UNCHANGED <<loop_pc, loop_exc, sampled, sensor_enabled, tsl_state,
                   loopLocals>>
    /\ UNCHANGED <<sensorVars, serverVars, audioVars, light>>

(***************************************************************************)
(* The state once server.py has built the sensors and the service: both    *)
(* sensors hold 0, volume_value is get_raw() of that, the clock reads 1;   *)
(* the light thread is started and has not run yet, the audio stream is    *)
(* started, the main thread is about to serve the GLib main loop.          *)
(***************************************************************************)
Init ==
    /\ now = 1
    /\ brightness_value = 0
    /\ volume_sensor_value = 0
    /\ volume_update_paused_until = 0
    /\ brightness_notifying = FALSE
    /\ brightness_previous = PreviousInit
    /\ brightness_last_notify = 1
    /\ brightness_timers = <<>>
    /\ volume_notifying = FALSE
    /\ volume_value = Bytes(ValueTextOf[0])
    /\ volume_previous = PreviousInit
    /\ volume_last_notify = 1
    /\ volume_timers = <<>>
    /\ out = Idle
    /\ keep_running = TRUE
    /\ loop_pc = "start_loop"
    /\ loop_exc = FALSE
    /\ sampled = FALSE
    /\ last_channel_0 = 0
    /\ settle_until = 0
    /\ gather_until = 0
    /\ ar_steps = 0
    /\ light = DefaultLight
    /\ buffer = EmptyBuffer
    /\ buf_length = 0
    /\ buf_index = 0
    /\ pushes = 0
    /\ history = <<>>
    /\ sensor_enabled = FALSE
    /\ tsl_state = 2
    /\ stream = "active"
    /\ main_pc = "run"

(***************************************************************************)
(* Spec: the notification gates.  The two characteristics share no state   *)
(* but the clock, so a run of Spec follows the subscription to one of      *)
(* them: the sensor and the handlers of a characteristic run while the     *)
(* sensor and the gate of the other one are still as they were built.  The *)
(* freeze window is the subject of SpecFreeze.                             *)
(***************************************************************************)
BrightnessUnused ==
    /\ brightness_value = 0
    /\ ~brightness_notifying
    /\ brightness_timers = <<>>
    /\ brightness_previous = PreviousInit

VolumeUnused ==
    /\ volume_sensor_value = 0
    /\ ~volume_notifying
    /\ volume_timers = <<>>
    /\ volume_previous = PreviousInit

Next ==
    \/ Advance(MaxGateTime)
    \/ VolumeUnused /\ \E v \in BrightnessValues : BrightnessSensorPublish(v)
    \/ VolumeUnused /\ \E i \in 1..MaxTimers : BrightnessNotify(i)
    \/ VolumeUnused /\ BrightnessStartNotify
    \/ VolumeUnused /\ BrightnessStopNotify
    \/ VolumeUnused /\ BrightnessReadValue
    \/ BrightnessUnused /\ \E v \in VolumeValues : VolumeSensorPublish(v)
    \/ BrightnessUnused /\ \E i \in 1..MaxTimers : VolumeNotify(i)
    \/ BrightnessUnused /\ VolumeStartNotify
    \/ BrightnessUnused /\ VolumeStopNotify
    \/ BrightnessUnused /\ VolumeReadValue

Spec == Init /\ [][Next]_vars

(***************************************************************************)
(* SpecFreeze: the freeze window of the volume characteristic.             *)
(***************************************************************************)
NextFreeze ==
    \/ Advance(MaxFreezeTime)
    \/ \E v \in VolumeValues : VolumeSensorPublish(v)
    \/ \E payload \in Payloads : PauseWriteValue(payload)
    \/ PauseReadValue
    \/ VolumeReadValue

SpecFreeze == Init /\ [][NextFreeze]_vars

(***************************************************************************)
(* SpecGateFreeze: the gate of the volume characteristic with a client     *)
(* that also writes to the pause characteristic.                           *)
(***************************************************************************)
NextGateFreeze ==
    \/ Advance(MaxGateFreezeTime)
    \/ \E v \in VolumeValues : VolumeSensorPublish(v)
    \/ \E i \in 1..MaxTimers : VolumeNotify(i)
    \/ VolumeStartNotify
    \/ VolumeStopNotify
    \/ VolumeReadValue
    \/ \E payload \in Payloads : PauseWriteValue(payload)

SpecGateFreeze == Init /\ [][NextGateFreeze]_vars

(***************************************************************************)
(* SpecLight: the light thread and callers of stop_loop.                   *)
(***************************************************************************)
NextLight ==
    \/ Advance(MaxLightTime)
    \/ LoopStart
    \/ \E ok \in BOOLEAN : LoopBegin(ok)
    \/ SetstateReturn
    \/ LoopTest
    \/ \E ok \in BOOLEAN, r \in ChannelReadings : LoopIrradiance(ok, r)
    \/ \E fault \in AutorangeFaults, r \in ChannelReadings :
           LoopAutorange(fault, r)
    \/ LoopGather
    \/ stop_loop

SpecLight == Init /\ [][NextLight]_vars

(***************************************************************************)
(* SpecConverge: the light loop under a steady light, taken up at the top  *)
(* of an iteration at any preset; the clock moves only while the thread    *)
(* sleeps, and sleeps end on time.                                         *)
(***************************************************************************)
InitConverge ==
    /\ now = 1
    /\ light \in LightLevels
    /\ tsl_state \in 0..(Len(states) - 1)
    /\ brightness_value = 0
    /\ volume_sensor_value = 0
    /\ volume_update_paused_until = 0
    /\ brightness_notifying = FALSE
    /\ brightness_previous = PreviousInit
    /\ brightness_last_notify = 1
    /\ brightness_timers = <<>>
    /\ volume_notifying = FALSE
    /\ volume_value = Bytes(ValueTextOf[0])
    /\ volume_previous = PreviousInit
    /\ volume_last_notify = 1
    /\ volume_timers = <<>>
    /\ out = Idle
    /\ keep_running = TRUE
    /\ loop_pc = "while"
    /\ loop_exc = FALSE
    /\ sampled = FALSE
    /\ sensor_enabled = TRUE
    /\ last_channel_0 = 0
    /\ settle_until = 0
    /\ gather_until = 0
    /\ ar_steps = 0
    /\ stream = "active"
    /\ main_pc = "run"
    /\ buffer = EmptyBuffer
    /\ buf_length = 0
    /\ buf_index = 0
    /\ pushes = 0
    /\ history = <<>>

\* the thread is in a sleep that is not over
LoopWaiting ==
    \/ loop_pc \in {"begin_settle", "autorange_settle"} /\ now < settle_until
    \/ loop_pc = "gather" /\ now < gather_until

NextConverge ==
    \/ LoopWaiting /\ Advance(MaxConvergeTime)
    \/ SetstateReturn
    \/ LoopTest
    \/ \E ok \in BOOLEAN : LoopIrradiance(ok, SteadyReading(tsl_state, light))
    \/ \E fault \in AutorangeFaults :
           LoopAutorange(fault, SteadyReading(tsl_state, light))
    \/ LoopGather

SpecConverge == InitConverge /\ [][NextConverge]_vars

(***************************************************************************)
(* SpecLightRead: the light thread and a client reading the brightness.    *)
(***************************************************************************)
NextLightRead ==
    \/ Advance(MaxLightTime)
    \/ LoopStart
    \/ \E ok \in BOOLEAN : LoopBegin(ok)
    \/ SetstateReturn
    \/ LoopTest
    \/ \E ok \in BOOLEAN, r \in ChannelReadings : LoopIrradiance(ok, r)
    \/ \E fault \in AutorangeFaults, r \in ChannelReadings :
           LoopAutorange(fault, r)
    \/ LoopGather
    \/ BrightnessReadValue

SpecLightRead == Init /\ [][NextLightRead]_vars

(***************************************************************************)
(* SpecAudio: the audio stream calling VolumeSensor.callback.              *)
(***************************************************************************)
NextAudio ==
    \E sample \in SamplesAt(pushes), fault \in Faults : callback(sample, fault)

SpecAudio == Init /\ [][NextAudio]_vars

(***************************************************************************)
(* SpecShutdown: the threads of server.py when app.run() ends.             *)
(***************************************************************************)
NextShutdown ==
    \/ Advance(MaxShutdownTime)
    \/ LoopStart
    \/ \E ok \in BOOLEAN : LoopBegin(ok)
    \/ SetstateReturn
    \/ LoopTest
    \/ \E ok \in BOOLEAN, r \in ChannelReadings : LoopIrradiance(ok, r)
    \/ \E fault \in AutorangeFaults, r \in ChannelReadings :
           LoopAutorange(fault, r)
    \/ LoopGather
    \/ \E v \in VolumeValues : VolumeSensorPublish(v)
    \/ \E keyboard \in BOOLEAN : MainInterrupt(keyboard)
    \/ stop

SpecShutdown == Init /\ [][NextShutdown]_vars

(***************************************************************************)
(* Properties of the notification gates (Spec).                            *)
(***************************************************************************)
\* the number a tick of either characteristic samples in the current state
BrightnessSample == FloatOf[BrightnessGet.b].v

VolumeSample == IF VolumeGet.t = "bytes" THEN FloatOf[VolumeGet.b].v ELSE 0

\* C1: a tick that runs while notifying is true and more than 0.2 s after
\* last_notify pushes a notification exactly when |previous - new| exceeds
\* the band (0.05 + 0.01 * previous for brightness, 0.5 for volume), for a
\* new value above previous as well as for one below it.
C1_NotifyIffBandExceeded ==
    [][ /\ (/\ out'.op = "BrightnessNotify"
            /\ brightness_notifying
            /\ now - brightness_last_notify > NotifySpacing)
           => ((out'.val # None) <=>
                  Abs(brightness_previous - BrightnessSample)
                      > BrightnessBand(brightness_previous))
        /\ (/\ out'.op = "VolumeNotify"
            /\ volume_notifying
            /\ now - volume_last_notify > NotifySpacing)
           => ((out'.val # None) <=>
                  Abs(volume_previous - VolumeSample) > VolumeBand) ]_vars

\* C2: a tick pushes a notification only when more than 0.2 s have passed
\* since last_notify, and a tick that pushes one sets last_notify to the
\* time of the push: two pushes of the tick are more than 0.2 s apart.
C2_TickSpacing ==
    [][ /\ (out'.op = "BrightnessNotify" /\ out'.val # None)
           => (/\ now - brightness_last_notify > NotifySpacing
               /\ brightness_last_notify' = now)
        /\ (out'.op = "VolumeNotify" /\ out'.val # None)
           => (/\ now - volume_last_notify > NotifySpacing
               /\ volume_last_notify' = now) ]_vars

\* C2 witness: a brightness tick has run, subscribed, within 0.2 s of an
\* earlier push of the tick, on a value that passes the magnitude test, and
\* pushed nothing.
C2_Witness ==
    /\ out = Result("BrightnessNotify", None, FALSE)
    /\ brightness_notifying
    /\ brightness_previous # PreviousInit
    /\ now - brightness_last_notify <= NotifySpacing
    /\ BrightnessChanged(brightness_previous, BrightnessSample)

\* C13: at most one periodic tick is armed for a characteristic, whatever
\* the sequence of StartNotify, StopNotify and timer firings, and none is
\* armed after a tick has run with notifying false.
C13_AtMostOneTick ==
    [][ /\ Len(brightness_timers') <= 1
        /\ Len(volume_timers') <= 1
        /\ (out'.op = "BrightnessNotify" /\ ~brightness_notifying)
               => brightness_timers' = <<>>
        /\ (out'.op = "VolumeNotify" /\ ~volume_notifying)
               => volume_timers' = <<>> ]_vars

\* C14: StartNotify called while notifying is false sets notifying, pushes
\* one notification carrying the current value, whatever the time since
\* last_notify and whatever previous is, and arms a tick NOTIFY_TIMEOUT
\* from now; called while notifying is true it does nothing.
C14_StartNotifyPushesOnce ==
    [][ /\ (out'.op = "BrightnessStartNotify" /\ ~brightness_notifying)
           => /\ brightness_notifying'
              /\ out'.val = Bytes(ValueTextOf[brightness_value])
              /\ ~out'.raised
              /\ Len(brightness_timers') = Len(brightness_timers) + 1
              /\ \E i \in 1..Len(brightness_timers') :
                     /\ brightness_timers'[i] = now + NOTIFY_TIMEOUT
                     /\ Remove(brightness_timers', i) = brightness_timers
        /\ (out'.op = "BrightnessStartNotify" /\ brightness_notifying)
           => (out'.val = None /\ UNCHANGED brightnessVars)
        /\ (out'.op = "VolumeStartNotify" /\ ~volume_notifying)
           => /\ volume_notifying'
              /\ out'.val = Bytes(ValueTextOf[volume_sensor_value])
              /\ ~out'.raised
              /\ Len(volume_timers') = Len(volume_timers) + 1
              /\ \E i \in 1..Len(volume_timers') :
                     /\ volume_timers'[i] = now + NOTIFY_TIMEOUT
                     /\ Remove(volume_timers', i) = volume_timers
        /\ (out'.op = "VolumeStartNotify" /\ volume_notifying)
           => (out'.val = None /\ UNCHANGED volumeVars) ]_vars

\* C14 witness: StartNotify has pushed the current value within 0.2 s of
\* the last push of the tick, a value inside the band around previous.
C14_Witness ==
    /\ out.op = "BrightnessStartNotify"
    /\ out.val = Bytes(ValueTextOf[brightness_value])
    /\ brightness_notifying
    /\ brightness_previous # PreviousInit
    /\ now - brightness_last_notify <= NotifySpacing
    /\ Abs(brightness_previous - brightness_value)
           <= BrightnessBand(brightness_previous)
    /\ Len(brightness_timers) >= 1

\* C20: previous and last_notify are written only by a tick that pushes,
\* which sets previous to the pushed value and last_notify to the time of
\* the push; every other step leaves both as they were.
C20_GateStateFrame ==
    [][ /\ (out'.op = "BrightnessNotify" /\ out'.val # None)
           => /\ brightness_previous' = FloatOf[out'.val.b].v
              /\ brightness_last_notify' = now
        /\ ~(out'.op = "BrightnessNotify" /\ out'.val # None)
           => UNCHANGED <<brightness_previous, brightness_last_notify>>
        /\ (out'.op = "VolumeNotify" /\ out'.val # None)
           => /\ volume_previous' = FloatOf[out'.val.b].v
              /\ volume_last_notify' = now
        /\ ~(out'.op = "VolumeNotify" /\ out'.val # None)
           => UNCHANGED <<volume_previous, volume_last_notify>> ]_vars

\* C20 witness: after StopNotify and StartNotify the gate still holds the
\* previous of the last push of the tick, which is not the value that
\* StartNotify has just pushed.
C20_Witness ==
    /\ out.op = "BrightnessStartNotify"
    /\ out.val # None
    /\ brightness_previous # PreviousInit
    /\ brightness_previous # FloatOf[out.val.b].v
    /\ brightness_last_notify < now

(***************************************************************************)
(* Properties of the freeze window (SpecFreeze).                           *)
(***************************************************************************)
\* the step is a WriteValue of the pause characteristic that float() parsed
WriteAccepted == out'.op = "PauseWriteValue" /\ FloatOf[out'.val.b].ok

\* C3: once WriteValue("0") on the pause characteristic has returned, the
\* volume output is not frozen and the volume accessor gives the live
\* sensor value.
C3_WriteZeroUnfreezes ==
    (out = Result("PauseWriteValue", Bytes(encode(<<"0">>)), FALSE))
        => (~is_volume_update_paused /\ VolumeGet = VolumeGetRaw)

\* C4: a pause at time t freezes at every time of [t, t + 5 s) and at no
\* time from t + 5 s on; nothing but a pause moves the expiry; before the
\* first pause nothing is frozen; and the pause characteristic reads "1"
\* exactly while the clock is below the expiry.
C4_FreezeWindow ==
    [][ /\ WriteAccepted =>
              /\ \A d \in 0..(PauseSeconds - 1) :
                     is_paused_at(now + d, volume_update_paused_until')
              /\ \A d \in 0..PauseSeconds :
                     ~is_paused_at(now + PauseSeconds + d,
                                   volume_update_paused_until')
        /\ ~WriteAccepted =>
              volume_update_paused_until' = volume_update_paused_until
        /\ volume_update_paused_until = 0 => ~is_volume_update_paused
        /\ out'.op = "PauseReadValue" =>
              (out'.val = Bytes(encode(<<"1">>))
                   <=> now < volume_update_paused_until) ]_vars

\* C4 witness: the pause characteristic is read exactly 5 s after the pause
\* and reads "0".
C4_Witness ==
    /\ out = Result("PauseReadValue", Bytes(encode(<<"0">>)), FALSE)
    /\ volume_update_paused_until # 0
    /\ now = volume_update_paused_until

\* C5: while the freeze window stays active volume_value does not change,
\* whatever the sensor publishes, and the volume accessor returns it; when
\* the window is not active the accessor returns the sensor's latest value.
C5_FrozenValueConstant ==
    [][ /\ (is_volume_update_paused /\ is_volume_update_paused')
              => volume_value' = volume_value
        /\ (out'.op = "VolumeReadValue" /\ is_volume_update_paused)
              => out'.val = volume_value
        /\ (out'.op = "VolumeReadValue" /\ ~is_volume_update_paused)
              => out'.val = Bytes(encode(Fmt5g(volume_sensor_value))) ]_vars

\* C5 witness: a read of the volume 6 s or more after the write that froze
\* it returns the value the sensor published meanwhile.
C5_Witness ==
    /\ out = Result("VolumeReadValue",
                    Bytes(encode(Fmt5g(volume_sensor_value))), FALSE)
    /\ volume_sensor_value # 0
    /\ volume_update_paused_until # 0
    /\ now >= volume_update_paused_until + 10

IsNumberText(val) ==
    val.t = "bytes" /\ DecodeOk(val.b) /\ ParseFloat(decode(val.b)).ok

\* C7: whatever ReadValue of the brightness and volume characteristics
\* returns, and whatever their StartNotify and notify push, is the UTF-8
\* text of a decimal number and never a raw float.
C7_PayloadsAreText ==
    (/\ out.op \in {"BrightnessReadValue", "VolumeReadValue",
                    "BrightnessStartNotify", "VolumeStartNotify",
                    "BrightnessNotify", "VolumeNotify"}
     /\ out.val # None)
        => IsNumberText(out.val)

\* a payload float() parses to a value beyond the double range
OutOfRange(payload) ==
    FloatOf[payload].ok /\ Abs(FloatOf[payload].v) = Inf

\* C8 as stated: a write whose payload is non-numeric or out of range
\* changes neither the expiry nor volume_value, and raises nothing.
C8_MalformedRejected ==
    [][ (/\ out'.op = "PauseWriteValue"
         /\ (~FloatOf[out'.val.b].ok \/ OutOfRange(out'.val.b)))
           => /\ volume_update_paused_until' = volume_update_paused_until
              /\ volume_value' = volume_value
              /\ ~out'.raised ]_vars

\* C8 amended: a write whose payload float(decode(...)) cannot parse changes
\* neither the expiry nor volume_value and raises nothing; every payload it
\* can parse, whatever its magnitude, moves the expiry to now + 5 s.
C8_UnparsableRejected ==
    [][ /\ (out'.op = "PauseWriteValue" /\ ~FloatOf[out'.val.b].ok)
           => /\ volume_update_paused_until' = volume_update_paused_until
              /\ volume_value' = volume_value
              /\ ~out'.raised
        /\ WriteAccepted
           => /\ volume_update_paused_until' = now + PauseSeconds
              /\ ~out'.raised ]_vars

\* C8 witness: a write that float() cannot parse has returned during an
\* active window, which it has not extended.
C8_Witness ==
    /\ out.op = "PauseWriteValue"
    /\ ~FloatOf[out.val.b].ok
    /\ is_volume_update_paused
    /\ volume_update_paused_until < now + PauseSeconds
    /\ volume_value.t = "float"

(***************************************************************************)
(* Properties of the sensor threads (SpecShutdown, SpecLight).             *)
(***************************************************************************)
\* C9: when stop() is over, after app.run() ended by KeyboardInterrupt or
\* by another exception, the light loop has been asked to stop and the
\* audio stream is stopped and closed.
C9_StopShutsSensorsDown ==
    (main_pc \notin {"run", "except KeyboardInterrupt", "except"})
        => (~keep_running /\ stream = "closed")

\* C10: a read that fails inside an iteration of the light loop leaves the
\* published value as it was and the loop running; the value changes only
\* when irradiance() returns; the loop ends only on finding keep_running
\* false at the top of an iteration.
C10_ReadFailureKeepsValue ==
    [][ /\ (loop_exc' /\ ~loop_exc)
           => /\ brightness_value' = brightness_value
              /\ loop_pc' = "while"
        /\ (brightness_value' # brightness_value)
           => (loop_pc = "irradiance" /\ loop_pc' = "autorange")
        /\ (loop_pc \in {"irradiance", "autorange"})
           => loop_pc' \notin {"exited", "failed"}
        /\ (loop_pc' = "exited" /\ loop_pc # "exited")
           => (loop_pc = "while" /\ ~keep_running) ]_vars

\* C10 witness: after a value was published, a read has failed and the
\* loop is back at its test, still running, with the value unchanged, not
\* the initial 0.
C10_Witness ==
    /\ loop_exc
    /\ loop_pc = "while"
    /\ keep_running
    /\ brightness_value # 0

(***************************************************************************)
(* Properties of the brightness read accessor (SpecLightRead).             *)
(***************************************************************************)
\* the step is a ReadValue of the brightness characteristic
BrightnessReadStep ==
    /\ out'.op = "BrightnessReadValue"
    /\ UNCHANGED <<brightness_value, lightVars>>

\* C11: a read of the brightness while the light sensor has failed on
\* every read since startup, so that irradiance() has never returned,
\* gives the literal "error".
C11_ErrorBeforeFirstSample ==
    [][ (BrightnessReadStep /\ loop_exc /\ ~sampled)
            => out'.val = Bytes(encode(<<"e", "r", "r", "o", "r">>)) ]_vars

(***************************************************************************)
(* Properties of the audio callback (SpecAudio).                           *)
(***************************************************************************)
\* C12: no error raised inside VolumeSensor.callback leaves the callback
\* and reaches the audio stream, and a call that does not run to its end
\* leaves the published level as it was.
C12_CallbackErrorsCaught ==
    [][ /\ stream' # "aborted"
        /\ (volume_sensor_value' # volume_sensor_value)
               => pushes' = pushes + 1 ]_vars

\* what populated_slice() returns in the current state
PopulatedNow == populated_slice(buffer, buf_length)

\* the smaller of two numbers
Min(a, b) == IF a < b THEN a ELSE b

\* number of positions of the sequence s that hold v
Count(s, v) == Cardinality({i \in 1..Len(s) : s[i] = v})

\* the last n elements of the sequence s
Last(s, n) == SubSeq(s, Len(s) - n + 1, Len(s))

\* C16: after k push calls, populated_slice() has length min(k, 100) and
\* holds, as a multiset, the last min(k, 100) pushed values; the count
\* saturates at 100 and the write index stays in 0..99, wrapping to 0.
C16_RingBufferHoldsLastPushes ==
    (stream = "active") =>
        LET n == Min(pushes, Capacity)
        IN  /\ Len(PopulatedNow) = n
            /\ buf_length = n
            /\ \A i \in 1..n :
                   Count(PopulatedNow, PopulatedNow[i])
                       = Count(Last(history, n), PopulatedNow[i])
            /\ buf_index \in 0..(Capacity - 1)
            /\ buf_index = pushes % Capacity

\* C16 witness: 150 pushes have been made; the slice has 100 elements and
\* the write index has wrapped to 50.
C16_Witness ==
    /\ stream = "active"
    /\ pushes = Capacity + 50
    /\ Len(PopulatedNow) = Capacity
    /\ buf_index = 50
    /\ Count(PopulatedNow, history[1]) = 0

\* the samples s hold v at 0-based rank r of their ascending order
AtRank(s, r, v) ==
    /\ Cardinality({j \in 1..Len(s) : s[j] < v}) <= r
    /\ r < Cardinality({j \in 1..Len(s) : s[j] <= v})
    /\ Count(s, v) > 0

\* x clamped to lo..hi
Clamp(x, lo, hi) == IF x < lo THEN lo ELSE IF x > hi THEN hi ELSE x

\* C17 as stated: after every callback the published level is the sample at
\* sorted rank clamp(round(0.8 n), 0, n - 1) of the n populated samples.
C17_RoundedRank ==
    (stream = "active" /\ pushes > 0) =>
        LET n == Len(PopulatedNow)
        IN  AtRank(PopulatedNow, Clamp((8 * n + 5) \div 10, 0, n - 1),
                   volume_sensor_value)

\* C17 amended: after every callback the published level is the sample at
\* sorted rank clamp(floor(0.8 n), 0, n - 1) of the n populated samples.
C17_TruncatedRank ==
    (stream = "active" /\ pushes > 0) =>
        LET n == Len(PopulatedNow)
        IN  AtRank(PopulatedNow, Clamp((8 * n) \div 10, 0, n - 1),
                   volume_sensor_value)

\* C17 witness: seven samples are populated and the published level is the
\* one at rank 5, which is not the one at rank 6.
C17_Witness ==
    /\ stream = "active"
    /\ pushes = 7
    /\ AtRank(PopulatedNow, 5, volume_sensor_value)
    /\ ~AtRank(PopulatedNow, 6, volume_sensor_value)

(***************************************************************************)
(* Properties of the light sensor driver (SpecConverge, SpecLight).        *)
(***************************************************************************)
\* the preset a pass of autorange at preset i on the reading c is to leave
ExpectedPreset(i, c) ==
    IF c > states[i + 1].hi /\ i > 0 THEN i - 1
    ELSE IF c < states[i + 1].lo /\ i < 6 THEN i + 1
    ELSE i

\* the step is a pass of autorange whose read returned
AutorangePass ==
    /\ loop_pc = "autorange"
    /\ loop_pc' # "autorange"
    /\ ~(loop_exc' /\ tsl_state' = tsl_state)

\* C15: one call autorange(once=True) at preset i on the reading channel_0
\* leaves i - 1 if channel_0 > hi[i] and i > 0, else i + 1 if channel_0 <
\* lo[i] and i < 6, else i: at most one step, within 0..6.
C15_AutorangeOneStep ==
    [][ AutorangePass
            => /\ tsl_state' = ExpectedPreset(tsl_state, last_channel_0')
               /\ Abs(tsl_state' - tsl_state) <= 1
               /\ tsl_state' \in 0..6 ]_vars

\* C15 witness: a pass at preset 0 on a reading above hi[0] has left the
\* preset at 0.
C15_Witness ==
    /\ loop_pc = "gather"
    /\ tsl_state = 0
    /\ last_channel_0 > states[1].hi
    /\ ar_steps = 0

\* C18: setstate(i) records i, leaves the sensor enabled and sleeps
\* 0.1 + 0.1 * (integration_steps + 1) s; the loop makes no raw read before
\* the end of that sleep, and the sensor is enabled when setstate returns.
C18_SettleBeforeRead ==
    [][ /\ (settle_until' # settle_until)
           => /\ sensor_enabled'
              /\ settle_until' = now + 1 + (states[tsl_state' + 1].integration + 1)
              /\ loop_pc' \in {"begin_settle", "autorange_settle"}
        /\ (loop_pc \in {"irradiance", "autorange"} /\ loop_pc' # loop_pc)
           => now >= settle_until
        /\ (/\ loop_pc \in {"begin_settle", "autorange_settle"}
            /\ loop_pc' \notin {"begin_settle", "autorange_settle"})
           => (now >= settle_until /\ sensor_enabled') ]_vars

\* C18 witness: after a change of preset the next irradiance read has
\* happened exactly when the settling delay ended.
C18_Witness ==
    /\ loop_pc = "autorange"
    /\ ar_steps = 1
    /\ tsl_state # 2
    /\ now = settle_until
    /\ gather_until = now + GatherSleep
    /\ sensor_enabled

\* C19: under a steady light a change of preset is never followed by a
\* change back, and autorange changes the preset at most 6 times.
C19_NoOscillation ==
    [][ /\ (tsl_state' > tsl_state)
           => ExpectedPreset(tsl_state', SteadyReading(tsl_state', light))
                  >= tsl_state'
        /\ (tsl_state' < tsl_state)
           => ExpectedPreset(tsl_state', SteadyReading(tsl_state', light))
                  <= tsl_state'
        /\ ar_steps' <= 6 ]_vars

\* C19 witness: six changes of preset have been made and the pass after
\* them has made none.
C19_Witness ==
    /\ ar_steps = 6
    /\ loop_pc = "gather"
    /\ last_channel_0 = SteadyReading(tsl_state, light)
    /\ ExpectedPreset(tsl_state, last_channel_0) = tsl_state

(***************************************************************************)
(* Properties of the stop request to the light thread (SpecLight).         *)
(***************************************************************************)
\* C21: a stop request is never lost: once stop_loop() has cleared
\* keep_running, the flag stays cleared for as long as the thread has not
\* left the loop, so that the loop's next test of it ends the thread.
C21_StopRequestKept ==
    [][ (~keep_running /\ loop_pc \notin {"exited", "failed"})
            => ~keep_running' ]_vars

(***************************************************************************)
(* Properties of the subscription as a whole (SpecGateFreeze, Spec).       *)
(***************************************************************************)
\* C22: while a client is subscribed a tick is armed, and a tick that runs
\* subscribed, more than 0.2 s after last_notify and outside a freeze, on
\* a value that differs from previous by more than the band in either
\* direction, pushes that value: a value that has moved and stays is
\* notified by the next such tick.
C22_MoveIsNotified ==
    [][ /\ brightness_notifying' => brightness_timers' # <<>>
        /\ volume_notifying' => volume_timers' # <<>>
        /\ (/\ out'.op = "BrightnessNotify"
            /\ brightness_notifying
            /\ now - brightness_last_notify > NotifySpacing
            /\ Abs(brightness_previous - brightness_value)
                   > BrightnessBand(brightness_previous))
           => out'.val = Bytes(ValueTextOf[brightness_value])
        /\ (/\ out'.op = "VolumeNotify"
            /\ volume_notifying
            /\ now - volume_last_notify > NotifySpacing
            /\ now >= volume_update_paused_until
            /\ Abs(volume_previous - volume_sensor_value) > VolumeBand)
           => out'.val = Bytes(ValueTextOf[volume_sensor_value]) ]_vars

\* C23: an unchanged value is never notified again: while a sensor still
\* holds the value it was built with (which no later sample equals), every
\* StartNotify so far has pushed that value and the sampled value has been
\* equal to it ever since, so no tick pushes a notification.
C23_UnchangedNotRenotified ==
    [][ /\ (out'.op = "BrightnessNotify" /\ brightness_value = 0)
           => out'.val = None
        /\ (out'.op = "VolumeNotify" /\ volume_sensor_value = 0)
           => out'.val = None ]_vars

=============================================================================
